---------------------------- MODULE Spec2Model ----------------------------
(***************************************************************************)
(* Model of src/main.py: the validated value types (Phone, Birthday), the  *)
(* Record, the AddressBook with its birthday query, and the command loop.   *)
(*                                                                         *)
(* Python values are records tagged with their type in field t.  A str is   *)
(* [t |-> "str", v |-> <<characters>>], every character a one-character     *)
(* TLA+ string; a character outside ASCII is written by its code point,     *)
(* e.g. "U+00B2" for SUPERSCRIPT TWO.                                       *)
(***************************************************************************)
EXTENDS Integers, Sequences, FiniteSets, TLC

VARIABLES record, book, now, pc, file, last

vars == <<record, book, now, pc, file, last>>

(***************************************************************************)
(* Python values                                                           *)
(***************************************************************************)
PyStr(s) == [t |-> "str", v |-> s]
PyInt(digits) == [t |-> "int", v |-> digits]
PyNone == [t |-> "NoneType", v |-> <<>>]
PyTrue == [t |-> "bool", v |-> <<"1">>]
PyFalse == [t |-> "bool", v |-> <<"0">>]

\* bool(x): None, "", False and 0 are falsy; an instance of a class that
\* defines neither __bool__ nor __len__ (Field and its subclasses) is truthy.
Truthy(x) ==
    CASE x.t = "NoneType" -> FALSE
      [] x.t = "str" -> Len(x.v) > 0
      [] x.t = "bool" -> x.v = <<"1">>
      [] x.t = "int" -> \E i \in 1..Len(x.v) : x.v[i] # "0"
      [] OTHER -> TRUE

\* str(x) as used by the f-string of Record.__str__
PyToStr(x) ==
    CASE x.t = "NoneType" -> <<"N", "o", "n", "e">>
      [] OTHER -> x.v

AsciiDigits == {"0", "1", "2", "3", "4", "5", "6", "7", "8", "9"}

\* characters outside ASCII for which str.isdigit() is true:
\* SUPERSCRIPT TWO and ARABIC-INDIC DIGIT THREE
OtherUnicodeDigits == {"U+00B2", "U+0663"}

DigitVal == ("0" :> 0) @@ ("1" :> 1) @@ ("2" :> 2) @@ ("3" :> 3) @@ ("4" :> 4)
            @@ ("5" :> 5) @@ ("6" :> 6) @@ ("7" :> 7) @@ ("8" :> 8) @@ ("9" :> 9)

\* str.isdigit(): non-empty and every character has the Unicode digit property
IsDigitStr(s) == Len(s) > 0 /\ \A i \in 1..Len(s) : s[i] \in AsciiDigits \cup OtherUnicodeDigits

IsAsciiDigitStr(s) == Len(s) > 0 /\ \A i \in 1..Len(s) : s[i] \in AsciiDigits

RECURSIVE ToInt(_)
ToInt(s) == IF s = <<>> THEN 0 ELSE 10 * ToInt(SubSeq(s, 1, Len(s) - 1)) + DigitVal[s[Len(s)]]

\* exception messages; NoExc stands for normal completion
NoExc == "none"
PhoneError == "ValueError: The phone number must be a string of 10 digits"
BirthdayError == "ValueError: Birthday must be in format DD.MM.YYYY"
OldNumberError == "ValueError: Old number not found"
RecordNotFoundError == "ValueError: Record not found"
ReplaceError == "ValueError: day is out of range for month"

(***************************************************************************)
(* The calendar of datetime: proleptic Gregorian dates, Monday = 0         *)
(***************************************************************************)
MinYear == 1
MaxYear == 9999

IsLeap(y) == y % 4 = 0 /\ (y % 100 # 0 \/ y % 400 = 0)

DaysInMonth(y, m) ==
    CASE m = 2 -> IF IsLeap(y) THEN 29 ELSE 28
      [] m \in {4, 6, 9, 11} -> 30
      [] OTHER -> 31

DaysBeforeYear(y) == (y - 1) * 365 + (y - 1) \div 4 - (y - 1) \div 100 + (y - 1) \div 400

RECURSIVE DaysBeforeMonth(_, _)
DaysBeforeMonth(y, m) == IF m = 1 THEN 0 ELSE DaysBeforeMonth(y, m - 1) + DaysInMonth(y, m - 1)

ValidDate(y, m, d) ==
    /\ y \in MinYear..MaxYear
    /\ m \in 1..12
    /\ d \in 1..DaysInMonth(y, m)

\* date.toordinal()
ToOrdinal(dt) == DaysBeforeYear(dt.year) + DaysBeforeMonth(dt.year, dt.month) + dt.day

\* date.fromordinal(), for ordinals within a year of guess
FromOrdinal(n, guess) ==
    LET y == CHOOSE yy \in (guess - 1)..(guess + 1) :
                 DaysBeforeYear(yy) < n /\ n <= DaysBeforeYear(yy + 1)
        r == n - DaysBeforeYear(y)
        m == CHOOSE mm \in 1..12 :
                 DaysBeforeMonth(y, mm) < r /\ r <= DaysBeforeMonth(y, mm) + DaysInMonth(y, mm)
    IN  [year |-> y, month |-> m, day |-> r - DaysBeforeMonth(y, m)]

\* datetime.weekday(): Monday is 0, Saturday 5, Sunday 6
Weekday(dt) == (ToOrdinal(dt) + 6) % 7

SecondsPerDay == 86400

\* a datetime is a date plus the seconds elapsed since midnight
DateTime(y, m, d, s) == [year |-> y, month |-> m, day |-> d, sec |-> s]

\* datetime.__lt__
DtLess(a, b) ==
    \/ ToOrdinal(a) < ToOrdinal(b)
    \/ ToOrdinal(a) = ToOrdinal(b) /\ a.sec < b.sec

\* (a - b).days: timedelta normalises 0 <= seconds < 86400, days is the floor
DtDiffDays(a, b) ==
    LET secs == (ToOrdinal(a) - ToOrdinal(b)) * SecondsPerDay + (a.sec - b.sec)
    IN  IF secs >= 0 THEN secs \div SecondsPerDay
        ELSE -((-secs + SecondsPerDay - 1) \div SecondsPerDay)

\* dt + timedelta(days=n)
DtAddDays(dt, n) ==
    LET d == FromOrdinal(ToOrdinal(dt) + n, dt.year)
    IN  DateTime(d.year, d.month, d.day, dt.sec)

\* dt.replace(year=y): ValueError when the day does not exist in year y
DtReplaceYear(dt, y) ==
    IF ValidDate(y, dt.month, dt.day)
    THEN [exc |-> NoExc, value |-> DateTime(y, dt.month, dt.day, dt.sec)]
    ELSE [exc |-> ReplaceError, value |-> dt]

(***************************************************************************)
(* datetime.strptime(text, "%d.%m.%Y") and datetime.strftime("%d.%m.%Y")   *)
(***************************************************************************)
DotPositions(s) == {i \in 1..Len(s) : s[i] = "."}

\* %d: 3[0-1] | [1-2]\d | 0[1-9] | [1-9] | " "[1-9]
DayFieldOk(f) ==
    \/ Len(f) = 2 /\ IsAsciiDigitStr(f) /\ ToInt(f) \in 1..31
    \/ Len(f) = 1 /\ IsAsciiDigitStr(f) /\ ToInt(f) \in 1..9
    \/ Len(f) = 2 /\ f[1] = " " /\ IsAsciiDigitStr(<<f[2]>>) /\ ToInt(<<f[2]>>) \in 1..9

\* %m: 1[0-2] | 0[1-9] | [1-9]
MonthFieldOk(f) ==
    \/ Len(f) = 2 /\ IsAsciiDigitStr(f) /\ ToInt(f) \in 1..12
    \/ Len(f) = 1 /\ IsAsciiDigitStr(f) /\ ToInt(f) \in 1..9

\* %Y: \d\d\d\d
YearFieldOk(f) == Len(f) = 4 /\ IsAsciiDigitStr(f)

FieldVal(f) == IF f[1] = " " THEN ToInt(Tail(f)) ELSE ToInt(f)

\* the whole text must match; the result is midnight of the parsed day
Strptime(s) ==
    LET dots == DotPositions(s)
        bad == [exc |-> "ValueError", value |-> DateTime(MinYear, 1, 1, 0)]
    IN  IF Cardinality(dots) # 2 THEN bad
        ELSE LET i == CHOOSE p \in dots : \A q \in dots : p <= q
                 j == CHOOSE p \in dots : \A q \in dots : q <= p
                 fd == SubSeq(s, 1, i - 1)
                 fm == SubSeq(s, i + 1, j - 1)
                 fy == SubSeq(s, j + 1, Len(s))
             IN  IF DayFieldOk(fd) /\ MonthFieldOk(fm) /\ YearFieldOk(fy)
                    /\ ValidDate(ToInt(fy), FieldVal(fm), FieldVal(fd))
                 THEN [exc |-> NoExc,
                       value |-> DateTime(ToInt(fy), FieldVal(fm), FieldVal(fd), 0)]
                 ELSE bad

DigitChar(n) == <<"0", "1", "2", "3", "4", "5", "6", "7", "8", "9">>[n + 1]

Pad2(n) == <<DigitChar(n \div 10), DigitChar(n % 10)>>

Pad4(n) == <<DigitChar(n \div 1000), DigitChar((n \div 100) % 10),
             DigitChar((n \div 10) % 10), DigitChar(n % 10)>>

\* zero-padded day and month, four-digit year (years 1000..9999)
Strftime(dt) == Pad2(dt.day) \o <<".">> \o Pad2(dt.month) \o <<".">> \o Pad4(dt.year)

(***************************************************************************)
(* Field, Name, Phone, Birthday                                            *)
(***************************************************************************)
PhoneLen == 10

\* Phone.__init__ raises unless this holds
PhoneAccepts(number) ==
    ~(number.t # "str" \/ ~IsDigitStr(number.v) \/ Len(number.v) # PhoneLen)

PhoneObj(number) == [t |-> "Phone", value |-> number]

NameObj(name) == [t |-> "Name", value |-> name]

\* Birthday.__init__: a falsy value (None, "") is stored without parsing
BirthdayInit(value) ==
    IF Truthy(value) /\ Strptime(value.v).exc # NoExc
    THEN [exc |-> BirthdayError, obj |-> [t |-> "Birthday", value |-> PyNone]]
    ELSE [exc |-> NoExc, obj |-> [t |-> "Birthday", value |-> value]]

(***************************************************************************)
(* Record                                                                  *)
(***************************************************************************)
RecordInit(name) ==
    [t |-> "Record", name |-> NameObj(name), phones |-> <<>>,
     birthday |-> BirthdayInit(PyNone).obj]

\* every method is a function from the record and the arguments to the
\* record afterwards, the exception raised (NoExc if none) and the return value
Outcome(r, e, v) == [rec |-> r, exc |-> e, ret |-> v]

Record_add_phone(r, number) ==
    IF ~PhoneAccepts(number) THEN Outcome(r, PhoneError, PyNone)
    ELSE Outcome([r EXCEPT !.phones = Append(@, PhoneObj(number))], NoExc, PyNone)

Record_add_birthday(r, birthday) ==
    LET b == BirthdayInit(birthday)
    IN  IF b.exc # NoExc THEN Outcome(r, b.exc, PyNone)
        ELSE Outcome([r EXCEPT !.birthday = b.obj], NoExc, PyNone)

\* the index of the last phone whose value equals number
FirstIndex_Last(phones, number) ==
    IF \E i \in 1..Len(phones) : phones[i].value = number
    THEN CHOOSE i \in 1..Len(phones) :
             /\ phones[i].value = number
             /\ \A k \in (i + 1)..Len(phones) : phones[k].value # number
    ELSE 0

\* index of the first phone whose value equals number, 0 if there is none
FirstIndex(phones, number) ==
    IF \E i \in 1..Len(phones) : phones[i].value = number
    THEN CHOOSE i \in 1..Len(phones) :
             /\ phones[i].value = number
             /\ \A k \in 1..(i - 1) : phones[k].value # number
    ELSE 0

RemoveAt(s, i) == SubSeq(s, 1, i - 1) \o SubSeq(s, i + 1, Len(s))

Record_remove_phone(r, number) ==
    LET i == FirstIndex(r.phones, number)
    IN  IF i = 0 THEN Outcome(r, NoExc, PyFalse)
        ELSE Outcome([r EXCEPT !.phones = RemoveAt(@, i)], NoExc, PyTrue)

Record_find_phone(r, number) ==
    LET i == FirstIndex(r.phones, number)
    IN  IF i = 0 THEN Outcome(r, NoExc, PyNone)
        ELSE Outcome(r, NoExc, r.phones[i])

\* edit_phone that removes the old number before it constructs the new one
Record_edit_phone_RemoveFirst(r, old_number, new_number) ==
    IF Truthy(Record_find_phone(r, old_number).ret)
    THEN LET removed == Record_remove_phone(r, old_number)
             added == Record_add_phone(removed.rec, new_number)
         IN  IF added.exc # NoExc THEN added
             ELSE Outcome(added.rec, NoExc, PyTrue)
    ELSE Outcome(r, OldNumberError, PyNone)

Record_edit_phone(r, old_number, new_number) ==
    IF Truthy(Record_find_phone(r, old_number).ret)
    THEN LET added == Record_add_phone(r, new_number)
         IN  IF added.exc # NoExc THEN added
             ELSE Outcome(Record_remove_phone(added.rec, old_number).rec, NoExc, PyTrue)
    ELSE Outcome(r, OldNumberError, PyNone)

RECURSIVE JoinPhones(_)
JoinPhones(phones) ==
    IF phones = <<>> THEN <<>>
    ELSE IF Len(phones) = 1 THEN phones[1].value.v
    ELSE phones[1].value.v \o <<";", " ">> \o JoinPhones(Tail(phones))

NamePrefix == <<"C", "o", "n", "t", "a", "c", "t", " ", "n", "a", "m", "e", ":", " ">>
PhonesPrefix == <<",", " ", "p", "h", "o", "n", "e", "s", ":", " ">>
BirthdayPrefix == <<",", " ", "b", "i", "r", "t", "h", "d", "a", "y", ":", " ">>

\* Record.__str__: the suffix is chosen by the truth value of the Birthday
\* object itself, not of its value
Record_str(r) ==
    LET birthday_str == IF Truthy(r.birthday)
                        THEN BirthdayPrefix \o PyToStr(r.birthday.value)
                        ELSE <<>>
    IN  Outcome(r, NoExc,
                PyStr(NamePrefix \o PyToStr(r.name.value) \o PhonesPrefix
                      \o JoinPhones(r.phones) \o birthday_str))

(***************************************************************************)
(* AddressBook: UserDict.data as the insertion-ordered sequence of its     *)
(* (key, value) items                                                      *)
(***************************************************************************)
BookOutcome(b, e, v) == [book |-> b, exc |-> e, ret |-> v]

\* position of key in the dict, 0 if absent
KeyIndex(b, key) ==
    IF \E i \in 1..Len(b) : b[i].key = key
    THEN CHOOSE i \in 1..Len(b) : b[i].key = key
    ELSE 0

\* data[key] = value: an existing key keeps its position
DictSet(b, key, value) ==
    IF KeyIndex(b, key) = 0 THEN Append(b, [key |-> key, value |-> value])
    ELSE [b EXCEPT ![KeyIndex(b, key)].value = value]

\* add_record that stores the record without looking for its name
AddressBook_add_record_Append(b, rec) ==
    BookOutcome(Append(b, [key |-> rec.name.value, value |-> rec]), NoExc, PyNone)

AddressBook_add_record(b, rec) ==
    BookOutcome(DictSet(b, rec.name.value, rec), NoExc, PyNone)

AddressBook_find(b, name) ==
    IF KeyIndex(b, name) = 0 THEN BookOutcome(b, NoExc, PyNone)
    ELSE BookOutcome(b, NoExc, b[KeyIndex(b, name)].value)

AddressBook_delete(b, name) ==
    IF KeyIndex(b, name) # 0 THEN BookOutcome(RemoveAt(b, KeyIndex(b, name)), NoExc, PyNone)
    ELSE BookOutcome(b, RecordNotFoundError, PyNone)

\* lines 99-102: the birthday in today's year, moved to the following year
\* when it compares less than the current date and time
NextOccurrence(birthday_date, today) ==
    LET this_year == DtReplaceYear(birthday_date, today.year)
    IN  IF this_year.exc # NoExc THEN this_year
        ELSE IF DtLess(this_year.value, today)
             THEN DtReplaceYear(this_year.value, today.year + 1)
             ELSE this_year

\* a weekend shift that moves Saturday by one day only
WeekendShift_SaturdayOneDay(dt) ==
    IF Weekday(dt) = 5 THEN DtAddDays(dt, 1)
    ELSE IF Weekday(dt) = 6 THEN DtAddDays(dt, 1)
    ELSE dt

\* lines 104-107
WeekendShift(dt) ==
    IF Weekday(dt) = 5 THEN DtAddDays(dt, 2)
    ELSE IF Weekday(dt) = 6 THEN DtAddDays(dt, 1)
    ELSE dt

\* lines 108-110
InWindow(adjusted, today) ==
    LET days_until_birthday == DtDiffDays(adjusted, today)
    IN  0 <= days_until_birthday /\ days_until_birthday <= 7

\* one iteration of the loop: the items appended for rec, or the exception
UpcomingOfRecord(rec, today) ==
    IF Truthy(rec.birthday) /\ Truthy(rec.birthday.value)
    THEN LET parsed == Strptime(rec.birthday.value.v)
         IN  IF parsed.exc # NoExc THEN [exc |-> NoExc, items |-> <<>>]
             ELSE LET next == NextOccurrence(parsed.value, today)
                  IN  IF next.exc # NoExc THEN [exc |-> next.exc, items |-> <<>>]
                      ELSE LET adjusted == WeekendShift(next.value)
                           IN  IF InWindow(adjusted, today)
                               THEN [exc |-> NoExc,
                                     items |-> <<[name |-> rec.name.value,
                                                  birthday |-> PyStr(Strftime(adjusted))]>>]
                               ELSE [exc |-> NoExc, items |-> <<>>]
    ELSE [exc |-> NoExc, items |-> <<>>]

PyList(items) == [t |-> "list", items |-> items]

RECURSIVE UpcomingLoop(_, _, _, _)
UpcomingLoop(b, i, today, upcoming_birthdays) ==
    IF i > Len(b) THEN BookOutcome(b, NoExc, PyList(upcoming_birthdays))
    ELSE LET one == UpcomingOfRecord(b[i].value, today)
         IN  IF one.exc # NoExc THEN BookOutcome(b, one.exc, PyNone)
             ELSE UpcomingLoop(b, i + 1, today, upcoming_birthdays \o one.items)

\* today is the value datetime.now() returns when the method is entered
AddressBook_get_upcoming_birthdays(b, today) == UpcomingLoop(b, 1, today, <<>>)

(***************************************************************************)
(* Inputs                                                                  *)
(***************************************************************************)
MaxPhones == 3

Ones == [i \in 1..PhoneLen |-> "1"]
Twos == [i \in 1..PhoneLen |-> "2"]
SuperscriptTwos == [i \in 1..PhoneLen |-> "U+00B2"]
NineDigits == <<"1", "2", "3", "4", "5", "6", "7", "8", "9">>
ElevenDigits == <<"1", "2", "3", "4", "5", "6", "7", "8", "9", "0", "1">>
WithLetters == <<"1", "2", "3", "4", "5", "a", "b", "c", "d", "e">>

RawNumbers ==
    {PyStr(Ones), PyStr(Twos), PyStr(SuperscriptTwos), PyStr(NineDigits),
     PyStr(ElevenDigits), PyStr(WithLetters), PyStr(<<>>), PyInt(Ones)}

RawBirthdays ==
    {PyNone, PyStr(<<>>),
     PyStr(<<"1", "2", ".", "0", "6", ".", "1", "9", "9", "0">>),
     PyStr(<<"2", "9", ".", "0", "2", ".", "1", "9", "9", "2">>),
     PyStr(<<"3", "1", ".", "0", "2", ".", "2", "0", "0", "0">>),
     PyStr(<<"1", "9", "9", "0", "-", "0", "6", "-", "1", "2">>)}

Ann == PyStr(<<"A", "n", "n">>)
Bob == PyStr(<<"B", "o", "b">>)
Names == {Ann, Bob}

NoCall == [op |-> "none"]

\* the last call: its name, its arguments, the receiver before the call, the
\* exception it raised and the value it returned
Call(op, args, before, exc, ret) ==
    [op |-> op, args |-> args, before |-> before, exc |-> exc, ret |-> ret]

StartNow == DateTime(2024, 6, 10, 0)
NoFile == [exists |-> FALSE, data |-> <<>>]

(***************************************************************************)
(* A Record under any sequence of calls of its methods                     *)
(***************************************************************************)
RecordInitState ==
    /\ record = RecordInit(Ann)
    /\ book = <<>>
    /\ now = StartNow
    /\ pc = "record"
    /\ file = NoFile
    /\ last = NoCall

RecordStep(op, args, out) ==
    /\ record' = out.rec
    /\ last' = Call(op, args, record, out.exc, out.ret)
    /\ UNCHANGED <<book, now, pc, file>>

AddPhone ==
    \E number \in RawNumbers :
        /\ Len(record.phones) < MaxPhones
        /\ RecordStep("add_phone", <<number>>, Record_add_phone(record, number))

RemovePhone ==
    \E number \in RawNumbers :
        RecordStep("remove_phone", <<number>>, Record_remove_phone(record, number))

EditPhone ==
    \E old_number \in RawNumbers, new_number \in RawNumbers :
        RecordStep("edit_phone", <<old_number, new_number>>,
                   Record_edit_phone(record, old_number, new_number))

FindPhone ==
    \E number \in RawNumbers :
        RecordStep("find_phone", <<number>>, Record_find_phone(record, number))

AddBirthday ==
    \E birthday \in RawBirthdays :
        RecordStep("add_birthday", <<birthday>>, Record_add_birthday(record, birthday))

Str == RecordStep("__str__", <<>>, Record_str(record))

RecordNext == AddPhone \/ RemovePhone \/ EditPhone \/ FindPhone \/ AddBirthday \/ Str

SpecRecord == RecordInitState /\ [][RecordNext]_vars

(***************************************************************************)
(* Claims about Record                                                     *)
(***************************************************************************)
HasPhone(phones, number) == \E i \in 1..Len(phones) : phones[i].value = number

CountPhone(phones, number) == Cardinality({i \in 1..Len(phones) : phones[i].value = number})

\* C4: whenever edit_phone(old, new) raises, the phone list is what it was
\* before the call; it raises the not-found error when old is not among the
\* phones, and the validation error when old is present and Phone rejects new.
C4_EditPhoneFailureLeavesPhones ==
    last.op = "edit_phone" =>
        LET old == last.args[1]
            new == last.args[2]
            before == last.before.phones
        IN  /\ last.exc # NoExc => record.phones = before
            /\ ~HasPhone(before, old) => last.exc = OldNumberError
            /\ HasPhone(before, old) /\ ~PhoneAccepts(new) =>
                   last.exc = PhoneError /\ record.phones = before

\* old is present, new is rejected, and the call has raised
C4_Witness ==
    /\ last.op = "edit_phone"
    /\ HasPhone(last.before.phones, last.args[1])
    /\ Len(last.before.phones) >= 2
    /\ last.exc = PhoneError

\* C5: when old is present and new is accepted, edit_phone leaves the list
\* with the first occurrence of old removed, the others in their order, and
\* new appended; the count of phones is unchanged, one occurrence of old is
\* lost when old # new and none when old = new.
C5_EditPhoneReplacesFirst ==
    (/\ last.op = "edit_phone"
     /\ HasPhone(last.before.phones, last.args[1])
     /\ PhoneAccepts(last.args[2])) =>
        LET old == last.args[1]
            new == last.args[2]
            before == last.before.phones
            after == record.phones
            first == CHOOSE i \in 1..Len(before) :
                         /\ before[i].value = old
                         /\ \A k \in 1..(i - 1) : before[k].value # old
        IN  /\ last.exc = NoExc
            /\ Len(after) = Len(before)
            /\ after[Len(after)].value = new
            /\ \A k \in 1..(Len(before) - 1) :
                   after[k] = IF k < first THEN before[k] ELSE before[k + 1]
            /\ old # new => CountPhone(after, old) = CountPhone(before, old) - 1
            /\ old # new /\ CountPhone(before, old) = 1 => ~HasPhone(after, old)
            /\ old = new => CountPhone(after, old) = CountPhone(before, old)

\* old occurs twice, not in the last position, and is replaced by another number
C5_Witness ==
    /\ last.op = "edit_phone"
    /\ last.exc = NoExc
    /\ last.args[1] # last.args[2]
    /\ CountPhone(last.before.phones, last.args[1]) = 2
    /\ last.before.phones[Len(last.before.phones)].value # last.args[1]

\* old = new, the other case of C5
C5_WitnessSame ==
    /\ last.op = "edit_phone"
    /\ last.exc = NoExc
    /\ last.args[1] = last.args[2]

\* C6: every phone stored in a Record is a str of exactly 10 decimal digits,
\* and add_phone either appends its argument verbatim or raises the
\* validation error and leaves the list unchanged.
IsTenDecimalDigits(x) == x.t = "str" /\ Len(x.v) = 10 /\ IsAsciiDigitStr(x.v)

C6_PhonesAreTenDigits ==
    /\ \A i \in 1..Len(record.phones) : IsTenDecimalDigits(record.phones[i].value)
    /\ last.op = "add_phone" =>
           IF IsTenDecimalDigits(last.args[1])
           THEN last.exc = NoExc
                /\ record.phones = Append(last.before.phones, PhoneObj(last.args[1]))
           ELSE last.exc = PhoneError /\ record.phones = last.before.phones

\* C8: the rendering of a record whose birthday is absent (None or "") is the
\* name and the joined phones, with no birthday part.
C8_NoBirthdayNoSuffix ==
    (last.op = "__str__" /\ ~Truthy(record.birthday.value)) =>
        last.ret = PyStr(NamePrefix \o record.name.value.v \o PhonesPrefix
                         \o JoinPhones(record.phones))

(***************************************************************************)
(* An AddressBook under any sequence of add_record, find and delete        *)
(***************************************************************************)
BirthdayJune12 == PyStr(<<"1", "2", ".", "0", "6", ".", "1", "9", "9", "0">>)

SampleRecords ==
    UNION {{RecordInit(n),
            Record_add_phone(RecordInit(n), PyStr(Ones)).rec,
            Record_add_birthday(RecordInit(n), BirthdayJune12).rec,
            Record_add_phone(Record_add_birthday(RecordInit(n), BirthdayJune12).rec,
                             PyStr(Twos)).rec} : n \in Names \cup {PyStr(<<>>)}}

BookInitState ==
    /\ book = <<>>
    /\ record = RecordInit(Ann)
    /\ now = StartNow
    /\ pc = "book"
    /\ file = NoFile
    /\ last = NoCall

BookStep(op, args, out) ==
    /\ book' = out.book
    /\ last' = Call(op, args, book, out.exc, out.ret)
    /\ UNCHANGED <<record, now, pc, file>>

AddRecord ==
    \E rec \in SampleRecords :
        BookStep("add_record", <<rec>>, AddressBook_add_record(book, rec))

Find ==
    \E name \in Names \cup {PyStr(<<>>)} :
        BookStep("find", <<name>>, AddressBook_find(book, name))

Delete ==
    \E name \in Names \cup {PyStr(<<>>)} :
        BookStep("delete", <<name>>, AddressBook_delete(book, name))

BookNext == AddRecord \/ Find \/ Delete

SpecBook == BookInitState /\ [][BookNext]_vars

\* C7: every key of the mapping equals the name of the record it maps to, no
\* key occurs twice, and after add_record(rec) the name of rec maps to rec
\* and to nothing else.
C7_KeyIsRecordName ==
    /\ \A i \in 1..Len(book) : book[i].key = book[i].value.name.value
    /\ \A i, j \in 1..Len(book) : book[i].key = book[j].key => i = j
    /\ last.op = "add_record" =>
           \A i \in 1..Len(book) :
               book[i].value.name.value = last.args[1].name.value => book[i].value = last.args[1]

\* a record was re-added under a name that mapped to a different record
C7_Witness ==
    /\ last.op = "add_record"
    /\ Len(last.before) = 2
    /\ \E i \in 1..Len(last.before) :
           /\ last.before[i].key = last.args[1].name.value
           /\ last.before[i].value # last.args[1]

(***************************************************************************)
(* get_upcoming_birthdays over books of accepted birthdays, at the moments *)
(* of a clock that runs through several weeks of 2023, 2024 and 2025        *)
(***************************************************************************)
MaxAdvance == 7

StartDates ==
    {DateTime(2024, 6, 10, 0), DateTime(2024, 12, 26, 0), DateTime(2023, 12, 26, 0),
     DateTime(2024, 2, 23, 0), DateTime(2023, 2, 22, 0)}

\* midnight, one second past it, noon, the last second of the day
TimesOfDay == {0, 1, 43200, SecondsPerDay - 1}

BirthMonths == {1, 2, 3, 6, 12}

\* every day of the months above, as text of a leap year
BirthdayTexts ==
    {Strftime(DateTime(1992, md[1], md[2], 0)) :
        md \in {x \in BirthMonths \X (1..31) : ValidDate(1992, x[1], x[2])}}

FewBirthdayTexts ==
    {<<"1", "2", ".", "0", "6", ".", "1", "9", "9", "0">>,
     <<"1", "5", ".", "0", "6", ".", "1", "9", "9", "0">>,
     <<"1", "8", ".", "0", "6", ".", "1", "9", "9", "0">>,
     <<"2", "9", ".", "0", "2", ".", "2", "0", "0", "0">>,
     <<"1", ".", "1", ".", "1", "9", "8", "5">>}

\* a record of that name whose birthday text add_birthday has accepted
RecordsWithBirthday(name, texts) ==
    {out.rec : out \in {o \in {Record_add_birthday(RecordInit(name), PyStr(b)) : b \in texts} :
                            o.exc = NoExc}}

BirthdayBooks ==
    {AddressBook_add_record(<<>>, r).book :
        r \in RecordsWithBirthday(Ann, BirthdayTexts) \cup {RecordInit(Ann)}}
    \cup
    {AddressBook_add_record(AddressBook_add_record(<<>>, r1).book, r2).book :
        r1 \in RecordsWithBirthday(Ann, FewBirthdayTexts) \cup {RecordInit(Ann)},
        r2 \in RecordsWithBirthday(Bob, FewBirthdayTexts)}

NextMoment(dt) ==
    IF \E s \in TimesOfDay : s > dt.sec
    THEN [dt EXCEPT !.sec = CHOOSE s \in TimesOfDay :
                                 s > dt.sec /\ \A u \in TimesOfDay : u > dt.sec => s <= u]
    ELSE DtAddDays([dt EXCEPT !.sec = 0], 1)

InClockWindow(dt) ==
    \E s \in StartDates : ToOrdinal(dt) - ToOrdinal(s) \in 0..MaxAdvance

BirthdaysInitState ==
    /\ book \in BirthdayBooks
    /\ now \in StartDates
    /\ record = RecordInit(Ann)
    /\ pc = "birthdays"
    /\ file = NoFile
    /\ last = NoCall

GetUpcomingBirthdays ==
    LET out == AddressBook_get_upcoming_birthdays(book, now)
    IN  /\ last' = Call("get_upcoming_birthdays", <<>>, book, out.exc, out.ret)
        /\ UNCHANGED <<record, book, now, pc, file>>

\* time passes between two calls
Tick ==
    /\ InClockWindow(NextMoment(now))
    /\ now' = NextMoment(now)
    /\ last' = NoCall
    /\ UNCHANGED <<record, book, pc, file>>

BirthdaysNext == GetUpcomingBirthdays \/ Tick

SpecBirthdays == BirthdaysInitState /\ [][BirthdaysNext]_vars

(***************************************************************************)
(* Claims about get_upcoming_birthdays                                     *)
(***************************************************************************)
IsUpcomingCall == last.op = "get_upcoming_birthdays"

HasBirthday(rec) == Truthy(rec.birthday.value)

\* the date of birth the stored text denotes
BirthDate(rec) == Strptime(rec.birthday.value.v).value

DateOnly(dt) == [dt EXCEPT !.sec = 0]

\* whole calendar days from the day of a to the day of b
CalendarDays(a, b) == ToOrdinal(b) - ToOrdinal(a)

Reported(name, text) ==
    \E k \in 1..Len(last.ret.items) :
        last.ret.items[k] = [name |-> name, birthday |-> PyStr(text)]

ReportedName(name) ==
    \E k \in 1..Len(last.ret.items) : last.ret.items[k].name = name

\* C1: a record whose birthday, taken in the current year, is today's date is
\* evaluated against this year's occurrence (0 days away) at every moment of
\* the day and, when today is a weekday, is reported with today's date.
C1_BirthdayTodayNotRolled ==
    (IsUpcomingCall /\ last.exc = NoExc) =>
        \A i \in 1..Len(book) :
            LET rec == book[i].value
            IN  (/\ HasBirthday(rec)
                 /\ BirthDate(rec).month = now.month
                 /\ BirthDate(rec).day = now.day) =>
                    /\ NextOccurrence(BirthDate(rec), now).value = DateOnly(now)
                    /\ Weekday(now) \in 0..4 => Reported(rec.name.value, Strftime(now))

\* C2: a record with a birthday is reported iff the whole calendar days from
\* today's date to its adjusted birthday are between 0 and 7, and it is
\* reported with the adjusted date.
C2_ReportedIffWithinSevenDays ==
    (IsUpcomingCall /\ last.exc = NoExc) =>
        \A i \in 1..Len(book) :
            LET rec == book[i].value
            IN  IF HasBirthday(rec)
                THEN LET adjusted == WeekendShift(NextOccurrence(BirthDate(rec), now).value)
                         days_until == CalendarDays(now, adjusted)
                     IN  /\ Reported(rec.name.value, Strftime(adjusted))
                                <=> (0 <= days_until /\ days_until <= 7)
                         /\ ReportedName(rec.name.value)
                                => Reported(rec.name.value, Strftime(adjusted))
                ELSE ~ReportedName(rec.name.value)

\* the first date on or after today's date with the month and day of birth
TrueNextOccurrence(bd, today) ==
    LET cands == {d \in {DateTime(y, bd.month, bd.day, 0) : y \in today.year..(today.year + 8)} :
                      ValidDate(d.year, d.month, d.day) /\ ToOrdinal(d) >= ToOrdinal(today)}
    IN  CHOOSE d \in cands : \A e \in cands : ToOrdinal(d) <= ToOrdinal(e)

\* C3: every reported date is a Monday-to-Friday date: the next occurrence of
\* the birthday when that is a weekday, otherwise the Monday after it
\* (Saturday + 2 days, Sunday + 1 day).
C3_ReportedDatesAreWeekdays ==
    (IsUpcomingCall /\ last.exc = NoExc) =>
        \A k \in 1..Len(last.ret.items) :
            LET item == last.ret.items[k]
                shown == Strptime(item.birthday.v)
            IN  /\ shown.exc = NoExc
                /\ Weekday(shown.value) \in 0..4
                /\ \E i \in 1..Len(book) :
                       /\ book[i].key = item.name
                       /\ HasBirthday(book[i].value)
                       /\ LET occ == TrueNextOccurrence(BirthDate(book[i].value), now)
                          IN  shown.value =
                                  CASE Weekday(occ) = 5 -> DtAddDays(occ, 2)
                                    [] Weekday(occ) = 6 -> DtAddDays(occ, 1)
                                    [] OTHER -> occ

\* today is Monday 10.06.2024 and a birthday on Saturday 15.06 is reported
\* as 17.06.2024
C3_Witness ==
    /\ IsUpcomingCall
    /\ last.exc = NoExc
    /\ DateOnly(now) = DateTime(2024, 6, 10, 0)
    /\ Weekday(now) = 0
    /\ \E i \in 1..Len(book) :
           /\ HasBirthday(book[i].value)
           /\ BirthDate(book[i].value).month = 6
           /\ BirthDate(book[i].value).day = 15
           /\ Reported(book[i].key, <<"1", "7", ".", "0", "6", ".", "2", "0", "2", "4">>)

\* a birthday on a Sunday is reported as the Monday after it
C3_WitnessSunday ==
    /\ IsUpcomingCall
    /\ last.exc = NoExc
    /\ \E i \in 1..Len(book) :
           /\ HasBirthday(book[i].value)
           /\ Weekday(TrueNextOccurrence(BirthDate(book[i].value), now)) = 6
           /\ ReportedName(book[i].key)

\* C10: get_upcoming_birthdays returns a list, without raising, for every
\* book of accepted birthdays and every current date.
C10_NeverRaises ==
    IsUpcomingCall => last.exc = NoExc /\ last.ret.t = "list"

(***************************************************************************)
(* The command loop of main()                                              *)
(***************************************************************************)
LowerMap ==
    ("A" :> "a") @@ ("B" :> "b") @@ ("C" :> "c") @@ ("D" :> "d") @@ ("E" :> "e") @@ ("F" :> "f")
    @@ ("G" :> "g") @@ ("H" :> "h") @@ ("I" :> "i") @@ ("J" :> "j") @@ ("K" :> "k") @@ ("L" :> "l")
    @@ ("M" :> "m") @@ ("N" :> "n") @@ ("O" :> "o") @@ ("P" :> "p") @@ ("Q" :> "q") @@ ("R" :> "r")
    @@ ("S" :> "s") @@ ("T" :> "t") @@ ("U" :> "u") @@ ("V" :> "v") @@ ("W" :> "w") @@ ("X" :> "x")
    @@ ("Y" :> "y") @@ ("Z" :> "z")

\* str.lower() on the characters of the inputs
Lower(s) == [i \in 1..Len(s) |-> IF s[i] \in DOMAIN LowerMap THEN LowerMap[s[i]] ELSE s[i]]

Whitespace == {" ", "\t", "\n"}

RECURSIVE LStrip(_)
LStrip(s) == IF s # <<>> /\ s[1] \in Whitespace THEN LStrip(Tail(s)) ELSE s

RECURSIVE RStrip(_)
RStrip(s) ==
    IF s # <<>> /\ s[Len(s)] \in Whitespace THEN RStrip(SubSeq(s, 1, Len(s) - 1)) ELSE s

\* str.strip()
Strip(s) == RStrip(LStrip(s))

CmdClose == <<"c", "l", "o", "s", "e">>
CmdExit == <<"e", "x", "i", "t">>
CmdHello == <<"h", "e", "l", "l", "o">>
CmdAdd == <<"a", "d", "d">>
CmdAll == <<"a", "l", "l">>
CmdCommands == <<"c", "o", "m", "m", "a", "n", "d", "s">>

\* what the user types at "Enter a command: "
UserInputs ==
    {CmdClose, CmdExit, CmdHello, CmdAdd, CmdAll, CmdCommands,
     <<" ", "E", "X", "I", "T", " ">>, <<"A", "d", "d">>,
     <<"b", "i", "r", "t", "h", "d", "a", "y", "s">>, <<>>}

\* what the user types at "Enter phone: "
PhoneInputs == {PyStr(Ones), PyStr(Twos), PyStr(NineDigits), PyStr(WithLetters)}

\* a line written by the view: a literal message, or a rendered contact
Printed(message) == [msg |-> message, text |-> <<>>]
PrintedContact(rec) == [msg |-> "", text |-> Record_str(rec).ret.v]

\* pickle.dump and pickle.load keep the book as it is
save_data(b) == [exists |-> TRUE, data |-> b]

load_data(f) == IF f.exists THEN f.data ELSE <<>>

ConsoleView_show_contacts(b) ==
    IF Len(b) = 0 THEN <<Printed("The address book is empty.")>>
    ELSE [i \in 1..Len(b) |-> PrintedContact(b[i].value)]

commands_list ==
    <<Printed("- hello: Greets the user."),
      Printed("- add: Add a new contact or phone number to an existing contact. Usage: add [name] [phone]"),
      Printed("- change: Change an existing phone number for a contact. Usage: change [name] [old_phone] [new_phone]"),
      Printed("- phone: Show phone numbers of a specific contact. Usage: phone [name]"),
      Printed("- all: Display all contacts in the address book."),
      Printed("- birthdays: Show contacts with upcoming birthdays in the next 7 days."),
      Printed("- add-birthday: Add a birthday to a contact. Usage: add-birthday [name] [DD.MM.YYYY]"),
      Printed("- show-birthday: Show the birthday of a specific contact. Usage: show-birthday [name]"),
      Printed("- commands: Return all available commands."),
      Printed("- close/exit: Save the address book and exit the program.")>>

SavedBooks ==
    {<<>>, AddressBook_add_record(<<>>, Record_add_phone(RecordInit(Bob), PyStr(Ones)).rec).book}

MainInitState ==
    /\ file \in {NoFile} \cup {save_data(b) : b \in SavedBooks}
    /\ book = load_data(file)
    /\ pc = "prompt"
    /\ record = RecordInit(Ann)
    /\ now = StartNow
    /\ last = NoCall

\* one pass of the loop body that ends at the next prompt
CommandStep(user_input, args, out) ==
    /\ last' = Call("command", <<user_input>> \o args, book, NoExc, out)
    /\ UNCHANGED <<record, book, now, pc, file>>

\* lines 183-186
CommandExit ==
    \E raw \in UserInputs :
        LET user_input == Lower(Strip(raw))
        IN  /\ pc = "prompt"
            /\ user_input \in {CmdClose, CmdExit}
            /\ file' = save_data(book)
            /\ pc' = "exited"
            /\ last' = Call("command", <<user_input>>, book, NoExc, <<Printed("Good bye!")>>)
            /\ UNCHANGED <<record, book, now>>

\* lines 187-188
CommandHello ==
    \E raw \in UserInputs :
        /\ pc = "prompt"
        /\ Lower(Strip(raw)) = CmdHello
        /\ CommandStep(CmdHello, <<>>, <<Printed("How can I help you?")>>)

\* lines 189-198: the record found or created is the object stored in the
\* book, so add_phone acts on the book's entry; an exception of add_phone is
\* caught nowhere and ends the process
CommandAdd ==
    \E raw \in UserInputs, name \in Names, phone \in PhoneInputs :
        LET found == AddressBook_find(book, name).ret
            created == ~Truthy(found)
            rec == IF created THEN RecordInit(name) ELSE found
            book1 == IF created THEN AddressBook_add_record(book, rec).book ELSE book
            added == Record_add_phone(rec, phone)
            out1 == IF created THEN <<Printed("Contact added.")>> ELSE <<>>
        IN  /\ pc = "prompt"
            /\ Lower(Strip(raw)) = CmdAdd
            /\ Len(rec.phones) < MaxPhones
            /\ IF added.exc # NoExc
               THEN /\ book' = book1
                    /\ pc' = "crashed"
                    /\ last' = Call("command", <<CmdAdd, name.v, phone.v>>, book, added.exc, out1)
               ELSE /\ book' = DictSet(book1, name, added.rec)
                    /\ pc' = pc
                    /\ last' = Call("command", <<CmdAdd, name.v, phone.v>>, book, NoExc,
                                    out1 \o <<Printed("Phone added to the contact.")>>)
            /\ UNCHANGED <<record, now, file>>

\* lines 199-200
CommandAll ==
    \E raw \in UserInputs :
        /\ pc = "prompt"
        /\ Lower(Strip(raw)) = CmdAll
        /\ CommandStep(CmdAll, <<>>, ConsoleView_show_contacts(book))

\* lines 201-204
CommandCommands ==
    \E raw \in UserInputs :
        /\ pc = "prompt"
        /\ Lower(Strip(raw)) = CmdCommands
        /\ CommandStep(CmdCommands, <<>>, <<Printed("Available commands:")>> \o commands_list)

\* lines 205-206
CommandInvalid ==
    \E raw \in UserInputs :
        LET user_input == Lower(Strip(raw))
        IN  /\ pc = "prompt"
            /\ user_input \notin {CmdClose, CmdExit, CmdHello, CmdAdd, CmdAll, CmdCommands}
            /\ CommandStep(user_input, <<>>, <<Printed("Invalid command.")>>)

MainNext ==
    CommandExit \/ CommandHello \/ CommandAdd \/ CommandAll \/ CommandCommands \/ CommandInvalid

SpecMain == MainInitState /\ [][MainNext]_vars

\* C9: an error raised by a core operation does not end the loop: after every
\* command the loop is at its prompt again, unless the command was close or
\* exit, and then the book has been saved.
C9_LoopSurvivesCoreErrors ==
    last.op = "command" =>
        /\ last.exc # NoExc => pc = "prompt"
        /\ pc # "prompt" => /\ last.args[1] \in {CmdClose, CmdExit}
                            /\ file = save_data(book)
=============================================================================
